---- MODULE Spec2Model ----
(***************************************************************************)
(* Model of the Newton's cradle generator (addons/newtons_cradle.py).      *)
(*                                                                         *)
(* Lengths are integers counted in ticks, Tick ticks to 1.0 scene unit, so *)
(* that every product and quotient the generator forms from the sampled    *)
(* parameter values (x/2, x/2*0.7, 0.6*x, 0.1*x) is an integer.  Vectors   *)
(* are triples <<x, y, z>> of ticks, angles are whole degrees.             *)
(*                                                                         *)
(* The host scene (bpy.data.objects, bpy.data.materials) is state.  The    *)
(* host keeps object names unique and the generator never renames an       *)
(* object after its creation, so bpy.data.objects is a function from the   *)
(* name the host gave an object to the object; serial is the position of   *)
(* the object in creation order.                                           *)
(***************************************************************************)
EXTENDS Integers, Sequences, FiniteSets, TLC

VARIABLES
    cfg,        \* the operator's properties (self.*) of the run in progress
    pc,         \* position inside execute
    ballNum,    \* loop variable of execute's for loop
    gen,        \* number of invocations of execute so far
    hostHandles,\* how the host places the handles of a new bezier point
    objects,    \* bpy.data.objects, by name
    materials,  \* bpy.data.materials
    calls,      \* create_ball calls of the run in progress: <<ballNum, ballLocation>>
    log,        \* host mutations of the run in progress, by phase
    emitted,    \* commands of the run in progress that create a material or assign a
                \* value computed from one read in the scene, with their arguments
    fault       \* exception that ended the run in progress, or "none"

vars == <<cfg, pc, ballNum, gen, hostHandles, objects, materials, calls, log, emitted, fault>>

----------------------------------------------------------------------------
(* Units *)

\* ticks per scene unit: 0.01 is 80 ticks, 0.001 is 8 ticks, 1/64 is 125 ticks
Tick == 8 * 1000

\* number of invocations of the operator explored in one scene
MaxGenerations == 2

----------------------------------------------------------------------------
(* Vectors *)

Vec(x, y, z) == <<x, y, z>>
VAdd(a, b) == <<a[1] + b[1], a[2] + b[2], a[3] + b[3]>>
VSub(a, b) == <<a[1] - b[1], a[2] - b[2], a[3] - b[3]>>
Abs(n) == IF n < 0 THEN -n ELSE n
Max(a, b) == IF a < b THEN b ELSE a

\* p / q rounded to the nearest integer (q > 0)
RoundDiv(p, q) == IF p >= 0 THEN (2 * p + q) \div (2 * q) ELSE -((2 * (-p) + q) \div (2 * q))

RECURSIVE IsqrtIn(_, _, _)
IsqrtIn(n, lo, hi) ==
    IF lo >= hi THEN lo
    ELSE LET mid == (lo + hi + 1) \div 2
         IN  IF mid * mid <= n THEN IsqrtIn(n, mid, hi) ELSE IsqrtIn(n, lo, mid - 1)

\* floor of the square root of n, 0 <= n < 2^31
Isqrt(n) == IsqrtIn(n, 0, 46340)

----------------------------------------------------------------------------
(* The operator's properties, lines 56-88 *)

ballCountMin == 3
ballCountMax == 10

\* declared minimum and maximum of every numeric property, in ticks (degrees for the angle)
PropertyRange ==
    [ ballCount              |-> <<ballCountMin, ballCountMax>>,
      ballStartAngle         |-> <<0, 180>>,
      ballBodyDiameter       |-> <<Tick \div 100, 10 * Tick>>,
      ballSuspensionDiameter |-> <<Tick \div 100, Tick>>,
      ballSuspensionLength   |-> <<Tick \div 100, Tick>>,
      ballWireThickness      |-> <<Tick \div 1000, Tick>>,
      frameThickness         |-> <<Tick \div 100, Tick>>,
      frameLengthExtra       |-> <<Tick \div 100, 10 * Tick>>,
      frameWidth             |-> <<Tick \div 100, 10 * Tick>>,
      frameHeigtBelowBalls   |-> <<Tick \div 100, 10 * Tick>>,
      frameHeigtAboveBalls   |-> <<Tick \div 100, 10 * Tick>>,
      frameCornerRadius      |-> <<Tick \div 100, 5 * Tick>> ]

InRange(c) ==
    \A f \in DOMAIN PropertyRange : PropertyRange[f][1] <= c[f] /\ c[f] <= PropertyRange[f][2]

\* the default value of every property
DefaultConfig ==
    [ ballCount                        |-> 5,
      ballStartAngle                   |-> 45,
      ballBodyDiameter                 |-> Tick,
      ballBodyMass                     |-> 5000,
      ballBodyFriction                 |-> 100,
      ballBodyBounciness               |-> 98,
      ballBodyIndividualMaterial       |-> FALSE,
      ballSuspensionDiameter           |-> Tick \div 20,
      ballSuspensionLength             |-> Tick \div 10,
      ballSuspensionIndividualMaterial |-> FALSE,
      ballWireThickness                |-> Tick \div 40,
      ballWireIndividualMaterial       |-> FALSE,
      frameThickness                   |-> Tick \div 5,
      frameLengthExtra                 |-> Tick \div 2,
      frameWidth                       |-> 5 * Tick,
      frameHeigtBelowBalls             |-> Tick,
      frameHeigtAboveBalls             |-> 3 * Tick,
      frameCornerRadius                |-> Tick \div 2 ]


\* configurations explored for a first generation: the geometry varies
WideConfigs ==
    { [DefaultConfig EXCEPT !.ballCount = n, !.ballBodyDiameter = d,
                            !.ballSuspensionDiameter = sd, !.ballSuspensionLength = sl,
                            !.frameWidth = w, !.frameThickness = ft,
                            !.frameHeigtBelowBalls = hb, !.frameHeigtAboveBalls = ha,
                            !.frameCornerRadius = r] :
        n  \in {ballCountMin, 4, 5, 7, ballCountMax},
        d  \in {Tick \div 100, Tick},
        sd \in {Tick \div 20, (15 * Tick) \div 16},
        sl \in {Tick \div 10, Tick},
        w  \in {Tick, 5 * Tick},
        ft \in {Tick \div 100, Tick \div 5},
        hb \in {Tick \div 4, Tick},
        ha \in {Tick \div 4, (53 * Tick) \div 64, 3 * Tick},
        r  \in {Tick \div 4, Tick \div 2} }

\* settings of the three individual-material flags explored: none, each alone, all
FlagChoices ==
    { <<FALSE, FALSE, FALSE>>, <<TRUE, FALSE, FALSE>>, <<FALSE, TRUE, FALSE>>,
      <<FALSE, FALSE, TRUE>>, <<TRUE, TRUE, TRUE>> }

\* configurations explored for every generation in a scene that is used again:
\* the ball count and the individual-material flags vary
SceneConfigs ==
    { [DefaultConfig EXCEPT !.ballCount = n,
                            !.ballBodyIndividualMaterial = f[1],
                            !.ballSuspensionIndividualMaterial = f[2],
                            !.ballWireIndividualMaterial = f[3]] :
        n \in {ballCountMin, ballCountMin + 1}, f \in FlagChoices }

----------------------------------------------------------------------------
(* Names.  A name is the prefix with its tag, the two digits of the ball   *)
(* number, and the numeric suffix the host appends to keep names unique    *)
(* (0: none, k: ".00k").                                                   *)

framePrefix == "Frame"
ballBodyPrefix == "BallBody"
ballSuspensionPrefix == "BallSuspension"
ballWirePrefix == "BallWire"
ballHingePrefix == "BallHinge"

\* '{0:02d}'.format(n)
Format02d(n) == <<n \div 10, n % 10>>

Name(base, digits) == [base |-> base, digits |-> digits, dup |-> 0]

frameName == Name(framePrefix, <<>>)
ballBodyName(num) == Name(ballBodyPrefix \o "_", Format02d(num + 1))
ballSuspensionName(num) == Name(ballSuspensionPrefix \o "_", Format02d(num + 1))
ballHingeCubeName(num) == Name(ballHingePrefix \o "Cube_", Format02d(num + 1))
ballHingeArrowsName(num) == Name(ballHingePrefix \o "Arrow_", Format02d(num + 1))
ballWireName(num) == Name(ballWirePrefix \o "Wire_", Format02d(num + 1))
ballWireFixation1Name(num) == Name(ballWirePrefix \o "WireFixation1_", Format02d(num + 1))
ballWireFixation2Name(num) == Name(ballWirePrefix \o "WireFixation2_", Format02d(num + 1))

----------------------------------------------------------------------------
(* The host's objects *)

NoRigidBody == [type |-> "NONE", friction |-> 0, restitution |-> 0, mass |-> 0]
\* no object (None)
NoObject == Name("", <<>>)

NoConstraint == [type |-> "NONE", object1 |-> NoObject, object2 |-> NoObject]

\* what a primitive_*_add or empty_add operator leaves as the active object;
\* role, num and gen record which command of which run created it
NewObject(role, num, g, type, location, rotation) ==
    [ name |-> NoObject, serial |-> 0, role |-> role, num |-> num, gen |-> g, type |-> type,
      location |-> location, rotation_euler |-> rotation, parent |-> NoObject,
      points |-> <<>>, cyclic |-> FALSE, bevel_depth |-> 0, materials |-> <<>>,
      rigid_body |-> NoRigidBody, rigid_body_constraint |-> NoConstraint,
      hide_viewport |-> FALSE, hide_render |-> FALSE, modifiers |-> 0 ]

\* bpy.data.objects[name]: the object of exactly that name, NoObject when there is none
Lookup(objs, name) == IF name \in DOMAIN objs THEN name ELSE NoObject

\* the name the host gives an object that asks for a name: the name itself when it
\* is free, else the name with the first free numeric suffix
HostUniqueName(objs, name) ==
    IF name \notin DOMAIN objs THEN name
    ELSE LET free == {k \in 1..(Cardinality(DOMAIN objs) + 1) :
                          [name EXCEPT !.dup = k] \notin DOMAIN objs}
         IN  [name EXCEPT !.dup = CHOOSE k \in free : \A j \in free : k <= j]

\* <primitive>_add(...) followed by bpy.context.active_object.name = name
AddNamed(objs, obj, name) ==
    LET unique == HostUniqueName(objs, name)
    IN  objs @@ (unique :> [obj EXCEPT !.name = unique, !.serial = Cardinality(DOMAIN objs) + 1])

----------------------------------------------------------------------------
(* The host's materials *)

MaterialName(prefix, digits) == [base |-> "Material_" \o prefix, digits |-> digits]

\* bpy.data.materials.get(name): position of the material in the registry, 0 for None
MaterialGet(mats, name) ==
    IF \E i \in 1..Len(mats) : mats[i].name = name
    THEN CHOOSE i \in 1..Len(mats) : mats[i].name = name
    ELSE 0

\* bpy.data.materials.new(name): a material with the host's default shading
MaterialNew(name) ==
    [name |-> name, diffuse_color |-> <<80, 80, 80, 100>>, roughness |-> 40,
     specular_intensity |-> 50]

\* m = materials.get(name); if m is None: m = materials.new(name=name)
MaterialGetOrNew(mats, name) ==
    IF MaterialGet(mats, name) = 0 THEN Append(mats, MaterialNew(name)) ELSE mats

----------------------------------------------------------------------------
(* create_frame, lines 117-208 *)

\* the 16 corner points in the order they are added, each with the role it is
\* constructed for (lines 124-157)
FrameCorners(c) ==
    LET half == (c.ballCount * c.ballBodyDiameter + c.frameLengthExtra) \div 2
        r    == c.frameCornerRadius
        w2   == c.frameWidth \div 2
        h    == c.frameHeigtBelowBalls + c.frameHeigtAboveBalls
        FrontLowerLeft1  == Vec(half + r, w2 - r, 0)
        FrontLowerLeft2  == Vec(half + r, w2, r)
        FrontUpperLeft1  == Vec(half + r, w2, h - r)
        FrontUpperLeft2  == Vec(half, w2, h)
        FrontUpperRight1 == Vec(-FrontUpperLeft2[1], FrontUpperLeft2[2], FrontUpperLeft2[3])
        FrontUpperRight2 == Vec(-FrontUpperLeft1[1], FrontUpperLeft1[2], FrontUpperLeft1[3])
        FrontLowerRight1 == Vec(-FrontLowerLeft2[1], FrontLowerLeft2[2], FrontLowerLeft2[3])
        FrontLowerRight2 == Vec(-FrontLowerLeft1[1], FrontLowerLeft1[2], FrontLowerLeft1[3])
        BackLowerRight1  == Vec(FrontLowerRight2[1], -FrontLowerRight2[2], FrontLowerRight2[3])
        BackLowerRight2  == Vec(FrontLowerRight1[1], -FrontLowerRight1[2], FrontLowerRight1[3])
        BackUpperRight1  == Vec(FrontUpperRight2[1], -FrontUpperRight2[2], FrontUpperRight2[3])
        BackUpperRight2  == Vec(FrontUpperRight1[1], -FrontUpperRight1[2], FrontUpperRight1[3])
        BackUpperLeft1   == Vec(FrontUpperLeft2[1], -FrontUpperLeft2[2], FrontUpperLeft2[3])
        BackUpperLeft2   == Vec(FrontUpperLeft1[1], -FrontUpperLeft1[2], FrontUpperLeft1[3])
        BackLowerLeft1   == Vec(FrontLowerLeft2[1], -FrontLowerLeft2[2], FrontLowerLeft2[3])
        BackLowerLeft2   == Vec(FrontLowerLeft1[1], -FrontLowerLeft1[2], FrontLowerLeft1[3])
        P(co, role) == [co |-> co, role |-> role]
    IN  << P(FrontLowerLeft1, "lower"),  P(FrontLowerLeft2, "mid"),
           P(FrontUpperLeft1, "mid"),    P(FrontUpperLeft2, "upper"),
           P(FrontUpperRight1, "upper"), P(FrontUpperRight2, "mid"),
           P(FrontLowerRight1, "mid"),   P(FrontLowerRight2, "lower"),
           P(BackLowerRight1, "lower"),  P(BackLowerRight2, "mid"),
           P(BackUpperRight1, "mid"),    P(BackUpperRight2, "upper"),
           P(BackUpperLeft1, "upper"),   P(BackUpperLeft2, "mid"),
           P(BackLowerLeft1, "mid"),     P(BackLowerLeft2, "lower") >>

\* the three heights the handle loop compares against (lines 174, 182, 190)
TierLower(c) == FrameCorners(c)[1].co[3]
TierMid1(c)  == FrameCorners(c)[2].co[3]
TierMid2(c)  == FrameCorners(c)[3].co[3]
TierUpper(c) == FrameCorners(c)[4].co[3]

\* (4 / 3) * tan(pi / 8), to four digits
KappaNum == 5523
KappaDen == 10000

\* handleVectorLength, line 168
handleVectorLength(c) == RoundDiv(KappaNum * c.frameCornerRadius, KappaDen)

\* the handles the host gives the points of the closed spline before the generator
\* overwrites them: a third of the way to a neighbour, the left handle towards the
\* previous point or towards the next one
HostPolicies == {"toPrev", "toNext"}

Third(v) == <<RoundDiv(v[1], 3), RoundDiv(v[2], 3), RoundDiv(v[3], 3)>>

HostBezierPoint(policy, prev, p, next) ==
    LET toPrev == VAdd(p.co, Third(VSub(prev.co, p.co)))
        toNext == VAdd(p.co, Third(VSub(next.co, p.co)))
    IN  [ co |-> p.co, role |-> p.role, branch |-> "unset",
          handle_left  |-> IF policy = "toPrev" THEN toPrev ELSE toNext,
          handle_right |-> IF policy = "toPrev" THEN toNext ELSE toPrev,
          handle_left_type |-> "AUTO", handle_right_type |-> "AUTO" ]

\* vertex_add x 16, cyclic_toggle, spline_type_set (lines 142-161)
HostSpline(policy, corners) ==
    LET n == Len(corners)
    IN  [i \in 1..n |-> HostBezierPoint(policy, corners[IF i = 1 THEN n ELSE i - 1],
                                        corners[i], corners[IF i = n THEN 1 ELSE i + 1])]

\* a wrong fix-up, which moves the point it is given instead of its handles
FixHandleMovingPoint(c, bp) == [bp EXCEPT !.co = Vec(@[1], @[2], @[3] + 1)]

\* one pass of the loop body, lines 171-200
FixHandle(c, bp) ==
    LET len == handleVectorLength(c)
        Set(br, plus, minus, swap) ==
            [bp EXCEPT !.handle_left_type = "FREE", !.handle_right_type = "FREE",
                       !.branch = br,
                       !.handle_left  = VAdd(bp.co, IF swap THEN plus ELSE minus),
                       !.handle_right = VAdd(bp.co, IF swap THEN minus ELSE plus)]
    IN  IF bp.co[3] = TierLower(c)
        THEN Set("lower", Vec(0, len, 0), Vec(0, -len, 0), bp.co[2] < bp.handle_left[2])
        ELSE IF bp.co[3] = TierMid1(c) \/ bp.co[3] = TierMid2(c)
        THEN Set("mid", Vec(0, 0, len), Vec(0, 0, -len), bp.co[3] < bp.handle_left[3])
        ELSE IF bp.co[3] = TierUpper(c)
        THEN Set("upper", Vec(len, 0, 0), Vec(-len, 0, 0), bp.co[1] < bp.handle_left[1])
        ELSE Set("other", Vec(0, 0, 0), Vec(0, 0, 0), FALSE)

\* the loop of line 170 over the points of the object found under frameName
FixHandles(c, points) == [i \in 1..Len(points) |-> FixHandle(c, points[i])]

frameMaterialName == MaterialName(framePrefix, <<>>)

\* create_frame: the scene [objects, materials] it leaves
create_frame(objs, mats, c, g, policy) ==
    LET curve  == [NewObject("frame", -1, g, "CURVE", Vec(0, 0, 0), Vec(0, 0, 0))
                     EXCEPT !.points = HostSpline(policy, FrameCorners(c)),
                            !.cyclic = TRUE]
        objs1  == AddNamed(objs, curve, frameName)
        frame  == Lookup(objs1, frameName)
        mats1  == MaterialGetOrNew(mats, frameMaterialName)
    IN  [ objects |-> [objs1 EXCEPT
                         ![frame].points = FixHandles(c, @),
                         ![frame].bevel_depth = c.frameThickness \div 2,
                         ![frame].materials = Append(@, frameMaterialName)],
          materials |-> mats1 ]


----------------------------------------------------------------------------
(* create_ball, lines 212-361 *)

\* name of the material of one category: shared, or one per ball (lines 228-230)
BallMaterialName(prefix, individual, num) ==
    MaterialName(prefix, IF individual THEN Format02d(num + 1) ELSE <<>>)

\* bpy.ops.rigidbody.objects_add() on the selected object, host defaults
HostRigidBody == [type |-> "ACTIVE", friction |-> 50, restitution |-> 0, mass |-> 100]

\* ballSuspensionLocation, line 248
SuspensionLocation(c, ballLocation) ==
    Vec(ballLocation[1], ballLocation[2],
        ballLocation[3] + (c.ballBodyDiameter \div 2 + (c.ballSuspensionDiameter * 7) \div 20))

\* frameCenterToBallSupportY and frameCenterToBallSupportZ, lines 277-278
SupportY(c, susp) == c.frameWidth \div 2 - (susp[2] + c.ballSuspensionLength \div 2)
SupportZ(c, susp) == c.frameHeigtBelowBalls + c.frameHeigtAboveBalls - susp[3]

\* a wrong delta length, half the frame's thickness alone, which the pivot's
\* distance from the corner must tell from the right one
HalfFrameThickness(c) == c.frameThickness \div 2

\* frameCenterToBallSupportDeltaLength, line 280
SupportDeltaLength(c) == c.frameThickness \div 2 + c.ballWireThickness \div 2

\* whether math.sqrt(y ** 2 + z ** 2) is 0.0, the divisor of lines 281-282
SupportLengthIsZero(y, z) == y * y + z * z = 0

\* (deltaLength / sqrt(y ** 2 + z ** 2)) * comp, rounded to the tick.  The vector
\* is first scaled up so that its longer side has 2 to 4 scene units, as floating
\* point keeps the relative precision of a short vector.
Precision == 10 * 1000
SupportDelta(deltaLength, y, z, comp) ==
    LET k    == Max(1, (2 * Tick) \div Max(Abs(y), Abs(z)))
        len  == Isqrt((k * y) * (k * y) + (k * z) * (k * z))
        unit == RoundDiv(k * comp * Precision, len)
    IN  RoundDiv(deltaLength * unit, Precision)

\* ballHingeLocation, lines 283-285
HingeLocation(c, ballLocation, susp) ==
    LET y == SupportY(c, susp)
        z == SupportZ(c, susp)
    IN  Vec(ballLocation[1],
            ballLocation[2] + c.frameWidth \div 2 - SupportDelta(SupportDeltaLength(c), y, z, y),
            ballLocation[3] + c.frameHeigtAboveBalls - SupportDelta(SupportDeltaLength(c), y, z, z))

\* wrong wires: one whose second half repeats the first instead of mirroring it,
\* and one that lacks the middle vertex
WireVerticesRepeated(c, hinge, susp) ==
    LET v2 == Vec(susp[1], susp[2] + (3 * c.ballSuspensionLength) \div 5,
                  susp[3] + c.ballSuspensionDiameter \div 10)
    IN  <<hinge, v2, susp, v2, hinge>>
WireVerticesWithoutMiddle(c, hinge, susp) ==
    LET v2 == Vec(susp[1], susp[2] + (3 * c.ballSuspensionLength) \div 5,
                  susp[3] + c.ballSuspensionDiameter \div 10)
    IN  <<hinge, v2, Vec(v2[1], -v2[2], v2[3]), Vec(hinge[1], -hinge[2], hinge[3])>>

\* the five vertices of the wire, lines 314-318
WireVertices(c, hinge, susp) ==
    LET ballWireVertex1 == hinge
        ballWireVertex2 == Vec(susp[1], susp[2] + (3 * c.ballSuspensionLength) \div 5,
                               susp[3] + c.ballSuspensionDiameter \div 10)
        ballWireVertex3 == susp
        ballWireVertex4 == Vec(ballWireVertex2[1], -ballWireVertex2[2], ballWireVertex2[3])
        ballWireVertex5 == Vec(ballWireVertex1[1], -ballWireVertex1[2], ballWireVertex1[3])
    IN  <<ballWireVertex1, ballWireVertex2, ballWireVertex3, ballWireVertex4, ballWireVertex5>>

\* a point of the wire's path, as vertex_add leaves it
WirePoint(co) ==
    [ co |-> co, role |-> "wire", branch |-> "unset", handle_left |-> co,
      handle_right |-> co, handle_left_type |-> "AUTO", handle_right_type |-> "AUTO" ]

\* ballWireFixation1Location and ballWireFixation2Location, lines 335 and 342
Fixation1Location(c, ballLocation) ==
    Vec(ballLocation[1], ballLocation[2] + c.frameWidth \div 2,
        ballLocation[3] + c.frameHeigtAboveBalls)
Fixation2Location(c, ballLocation) ==
    LET f1 == Fixation1Location(c, ballLocation) IN Vec(f1[1], -f1[2], f1[3])

\* lines 214-273: the ball body and its suspension
create_ball_body(objs, mats, c, g, num, ballLocation) ==
    LET objs1 == AddNamed(objs, NewObject("body", num, g, "SPHERE", ballLocation, Vec(0, 0, 0)),
                          ballBodyName(num))
        body  == Lookup(objs1, ballBodyName(num))
        bodyMat == BallMaterialName(ballBodyPrefix, c.ballBodyIndividualMaterial, num)
        mats1 == MaterialGetOrNew(mats, bodyMat)
        objs2 == [objs1 EXCEPT
                    ![body].modifiers = @ + 1,
                    ![body].materials = Append(@, bodyMat),
                    ![body].rigid_body =
                        [HostRigidBody EXCEPT !.friction = c.ballBodyFriction,
                                              !.restitution = c.ballBodyBounciness,
                                              !.mass = c.ballBodyMass,
                                              !.type = "ACTIVE"]]
        susp  == SuspensionLocation(c, ballLocation)
        objs3 == AddNamed(objs2, NewObject("suspension", num, g, "CYLINDER", susp, Vec(90, 0, 0)),
                          ballSuspensionName(num))
        suspension == Lookup(objs3, ballSuspensionName(num))
        suspMat == BallMaterialName(ballSuspensionPrefix, c.ballSuspensionIndividualMaterial, num)
        mats2 == MaterialGetOrNew(mats1, suspMat)
    IN  [ objects |-> [objs3 EXCEPT
                         ![suspension].materials = Append(@, suspMat),
                         ![suspension].parent = Lookup(objs3, ballBodyName(num))],
          materials |-> mats2 ]

\* lines 286-310: the hinge cube, the hinge arrows and the parenting of the body
create_ball_hinge(objs, c, g, num, hinge) ==
    LET objs1 == AddNamed(objs, NewObject("hingeCube", num, g, "CUBE", hinge, Vec(0, 0, 0)),
                          ballHingeCubeName(num))
        cube  == Lookup(objs1, ballHingeCubeName(num))
        objs2 == [objs1 EXCEPT
                    ![cube].rigid_body = [(IF @.type = "NONE" THEN HostRigidBody ELSE @)
                                            EXCEPT !.type = "PASSIVE"],
                    ![cube].hide_viewport = TRUE,
                    ![cube].hide_render = TRUE]
        objs3 == AddNamed(objs2, NewObject("hingeArrows", num, g, "EMPTY", hinge, Vec(0, 90, 90)),
                          ballHingeArrowsName(num))
        \* constraint_add works on the active object, the empty just created
        objs4 == [objs3 EXCEPT ![HostUniqueName(objs2, ballHingeArrowsName(num))]
                                   .rigid_body_constraint = [NoConstraint EXCEPT !.type = "HINGE"]]
        arrows == Lookup(objs4, ballHingeArrowsName(num))
        body   == Lookup(objs4, ballBodyName(num))
    IN  [objs4 EXCEPT
           ![arrows].rigid_body_constraint.object1 = body,
           ![arrows].rigid_body_constraint.object2 = Lookup(objs4, ballHingeCubeName(num)),
           ![arrows].hide_render = TRUE,
           ![body].parent = arrows]

\* lines 312-361: the wire, its two fixations, their material, the wire's parent
create_ball_wire(objs, mats, c, g, num, ballLocation, hinge, susp) ==
    LET vs    == WireVertices(c, hinge, susp)
        path  == [NewObject("wire", num, g, "CURVE", ballLocation, Vec(0, 0, 0))
                    EXCEPT !.points = [i \in 1..Len(vs) |-> WirePoint(vs[i])]]
        objs1 == AddNamed(objs, path, ballWireName(num))
        wire  == Lookup(objs1, ballWireName(num))
        objs2 == [objs1 EXCEPT ![wire].bevel_depth = c.ballWireThickness \div 2]
        objs3 == AddNamed(objs2, NewObject("fixation1", num, g, "TORUS",
                                           Fixation1Location(c, ballLocation), Vec(0, 90, 0)),
                          ballWireFixation1Name(num))
        objs4 == AddNamed(objs3, NewObject("fixation2", num, g, "TORUS",
                                           Fixation2Location(c, ballLocation), Vec(0, 90, 0)),
                          ballWireFixation2Name(num))
        wireMat == BallMaterialName(ballWirePrefix, c.ballWireIndividualMaterial, num)
        fix1  == Lookup(objs4, ballWireFixation1Name(num))
        fix2  == Lookup(objs4, ballWireFixation2Name(num))
    IN  [ objects |-> [objs4 EXCEPT
                         ![wire].materials = Append(@, wireMat),
                         ![fix1].materials = Append(@, wireMat),
                         ![fix2].materials = Append(@, wireMat),
                         ![wire].parent = Lookup(objs4, ballBodyName(num))],
          materials |-> MaterialGetOrNew(mats, wireMat) ]

\* create_ball: the scene it leaves and the exception it raises, if any
create_ball(objs, mats, c, g, num, ballLocation) ==
    LET b    == create_ball_body(objs, mats, c, g, num, ballLocation)
        susp == SuspensionLocation(c, ballLocation)
    IN  IF SupportLengthIsZero(SupportY(c, susp), SupportZ(c, susp))
        THEN [objects |-> b.objects, materials |-> b.materials, fault |-> "ZeroDivisionError"]
        ELSE LET hinge == HingeLocation(c, ballLocation, susp)
                 w == create_ball_wire(create_ball_hinge(b.objects, c, g, num, hinge),
                                       b.materials, c, g, num, ballLocation, hinge, susp)
             IN  [objects |-> w.objects, materials |-> w.materials, fault |-> "none"]


----------------------------------------------------------------------------
(* rotate_object, lines 405-411.  Orientations are Euler angles in whole   *)
(* degrees (order XYZ); matrices hold fixed-point numbers, Precision to 1. *)

\* sin of 0, 1, ..., 90 degrees, times Precision
SinTable ==
    <<
       0, 175, 349, 523, 698, 872, 1045, 1219, 1392, 1564, 1736, 1908, 2079,
       2250, 2419, 2588, 2756, 2924, 3090, 3256, 3420, 3584, 3746, 3907, 4067, 4226,
       4384, 4540, 4695, 4848, 5000, 5150, 5299, 5446, 5592, 5736, 5878, 6018, 6157,
       6293, 6428, 6561, 6691, 6820, 6947, 7071, 7193, 7314, 7431, 7547, 7660, 7771,
       7880, 7986, 8090, 8192, 8290, 8387, 8480, 8572, 8660, 8746, 8829, 8910, 8988,
       9063, 9135, 9205, 9272, 9336, 9397, 9455, 9511, 9563, 9613, 9659, 9703, 9744,
       9781, 9816, 9848, 9877, 9903, 9925, 9945, 9962, 9976, 9986, 9994, 9998, 10000
    >>

Sin(d) ==
    LET a == d % 360
    IN  IF a <= 90 THEN SinTable[a + 1]
        ELSE IF a <= 180 THEN SinTable[180 - a + 1]
        ELSE IF a <= 270 THEN -SinTable[a - 180 + 1]
        ELSE -SinTable[360 - a + 1]

Cos(d) == Sin(d + 90)

\* product of two fixed-point numbers
Mul(a, b) == RoundDiv(a * b, Precision)

\* Euler.to_matrix(): rows of Rz(e[3]) * Ry(e[2]) * Rx(e[1])
EulerToMatrix(e) ==
    LET ci == Cos(e[1])  si == Sin(e[1])
        cj == Cos(e[2])  sj == Sin(e[2])
        ch == Cos(e[3])  sh == Sin(e[3])
    IN  << <<Mul(cj, ch), Mul(sj, Mul(si, ch)) - Mul(ci, sh), Mul(sj, Mul(ci, ch)) + Mul(si, sh)>>,
           <<Mul(cj, sh), Mul(sj, Mul(si, sh)) + Mul(ci, ch), Mul(sj, Mul(ci, sh)) - Mul(si, ch)>>,
           <<-sj,         Mul(cj, si),                        Mul(cj, ci)>> >>

\* a wrong rotation matrix, which turns by the magnitude of the angle whatever its
\* sign
RotationMatrixOfMagnitude(angleDegrees, axis) ==
    LET c == Cos(Abs(angleDegrees))
        s == Sin(Abs(angleDegrees))
    IN  CASE axis = "X" -> << <<Precision, 0, 0>>, <<0, c, -s>>, <<0, s, c>> >>
          [] axis = "Y" -> << <<c, 0, s>>, <<0, Precision, 0>>, <<-s, 0, c>> >>
          [] OTHER      -> << <<c, -s, 0>>, <<s, c, 0>>, <<0, 0, Precision>> >>

\* mathutils.Matrix.Rotation(math.radians(angleDegrees), 3, axis)
RotationMatrix(angleDegrees, axis) ==
    LET c == Cos(angleDegrees)
        s == Sin(angleDegrees)
    IN  CASE axis = "X" -> << <<Precision, 0, 0>>, <<0, c, -s>>, <<0, s, c>> >>
          [] axis = "Y" -> << <<c, 0, s>>, <<0, Precision, 0>>, <<-s, 0, c>> >>
          [] OTHER      -> << <<c, -s, 0>>, <<s, c, 0>>, <<0, 0, Precision>> >>

\* a @ b
MatMul(a, b) ==
    [i \in 1..3 |-> [j \in 1..3 |->
        RoundDiv(a[i][1] * b[1][j] + a[i][2] * b[2][j] + a[i][3] * b[3][j], Precision)]]

\* the angle a in lo..hi at which x * cos a + y * sin a is largest (x, y >= 0)
RECURSIVE AtanIn(_, _, _, _)
AtanIn(y, x, lo, hi) ==
    IF lo >= hi THEN lo
    ELSE LET mid == (lo + hi) \div 2
         IN  IF x * Cos(mid + 1) + y * Sin(mid + 1) > x * Cos(mid) + y * Sin(mid)
             THEN AtanIn(y, x, mid + 1, hi)
             ELSE AtanIn(y, x, lo, mid)

\* atan2(y, x) in whole degrees, in -179..180
Atan2(y, x) ==
    LET a == AtanIn(Abs(y), Abs(x), 0, 90)
    IN  IF x = 0 /\ y = 0 THEN 0
        ELSE IF x >= 0 THEN (IF y >= 0 THEN a ELSE -a)
        ELSE IF y >= 0 THEN 180 - a
        ELSE a - 180

\* hypot(a, b)
Hypot(a, b) == Isqrt(a * a + b * b)

\* Matrix.to_euler(): of the two XYZ solutions the one with the smaller sum of
\* absolute angles; when cos(y) vanishes, the solution with z = 0
MatrixToEuler(m) ==
    LET cy   == Hypot(m[1][1], m[2][1])
        eul1 == <<Atan2(m[3][2], m[3][3]), Atan2(-m[3][1], cy), Atan2(m[2][1], m[1][1])>>
        eul2 == <<Atan2(-m[3][2], -m[3][3]), Atan2(-m[3][1], -cy), Atan2(-m[2][1], -m[1][1])>>
        Sum(e) == Abs(e[1]) + Abs(e[2]) + Abs(e[3])
    IN  IF cy > 0
        THEN (IF Sum(eul1) > Sum(eul2) THEN eul2 ELSE eul1)
        ELSE <<Atan2(-m[2][3], m[2][2]), Atan2(-m[3][1], cy), 0>>

\* a rotation that leaves the orientation as it was, which the initial condition
\* must tell from rotate_object
KeepOrientation(e, angleDegrees, axis) == e

\* rotate_object: the new rotation_euler of an object whose rotation_euler is e
rotate_object(e, angleDegrees, axis) ==
    MatrixToEuler(MatMul(EulerToMatrix(e), RotationMatrix(angleDegrees, axis)))


----------------------------------------------------------------------------
(* materials_define, lines 365-401 *)

\* if material is not None: set its colour, roughness and specular intensity
MaterialSet(mats, name, colour, roughness, specular) ==
    LET m == MaterialGet(mats, name)
    IN  IF m = 0 THEN mats
        ELSE [mats EXCEPT ![m].diffuse_color = colour, ![m].roughness = roughness,
                          ![m].specular_intensity = specular]

BallBodyColour == <<0, 0, 100, 100>>
BallSuspensionColour == <<0, 100, 0, 100>>
BallWireColour == <<100, 65, 0, 100>>
FrameColour == <<40, 40, 40, 100>>

\* one pass of the loop body, lines 368-401
materials_define_ball(mats, c, num) ==
    LET m1 == MaterialSet(mats, BallMaterialName(ballBodyPrefix, c.ballBodyIndividualMaterial, num),
                          BallBodyColour, 50, 50)
        m2 == MaterialSet(m1, BallMaterialName(ballSuspensionPrefix,
                                               c.ballSuspensionIndividualMaterial, num),
                          BallSuspensionColour, 50, 50)
        m3 == MaterialSet(m2, BallMaterialName(ballWirePrefix, c.ballWireIndividualMaterial, num),
                          BallWireColour, 50, 0)
    IN  MaterialSet(m3, frameMaterialName, FrameColour, 50, 50)

\* the loop over range(from, ballCount)
RECURSIVE materials_define_from(_, _, _)
materials_define_from(mats, c, from) ==
    IF from >= c.ballCount THEN mats
    ELSE materials_define_from(materials_define_ball(mats, c, from), c, from + 1)

materials_define(mats, c) == materials_define_from(mats, c, 0)

----------------------------------------------------------------------------
(* execute, lines 92-113 *)

\* the ballLocation argument of line 103
BallLocation(c, num) ==
    Vec(((2 * num - (c.ballCount - 1)) * c.ballBodyDiameter) \div 2, 0, c.frameHeigtBelowBalls)

\* a wrong order, without the loop over the balls
StraightToMaterials == "materials"

\* the phase that follows the call of create_frame, and the one that follows the loop
AfterFrame == "balls"
AfterBalls == "materials"
AfterMaterials == "initial"

\* the ball whose hinge arrows line 110 names: 'Arrow_{0:02d}'.format(1)
InitialBall == 0

\* a log entry: the phase, its ball, and the positions of the objects it created
Entry(phase, num, before, after) ==
    [phase |-> phase, num |-> num, first |-> Cardinality(DOMAIN before) + 1,
     last |-> Cardinality(DOMAIN after)]

\* bpy.data.materials.new(name=...) of lines 207, 233, 269 and 355: the registry
\* only grows at its end, one material for each call
NewMaterialCommands(before, after) ==
    [k \in 1..(Len(after) - Len(before)) |-> <<"materials.new", after[Len(before) + k].name>>]

\* the assignments to handle_left and handle_right of lines 175-200, as offsets from
\* the point, read off the curve the loop has run over
HandleCommand(objs) ==
    <<"handles", [i \in 1..Len(objs[frameName].points) |->
                    <<VSub(objs[frameName].points[i].handle_left, objs[frameName].points[i].co),
                      VSub(objs[frameName].points[i].handle_right, objs[frameName].points[i].co)>>]>>

\* obj.rotation_euler = ... of line 411
RotationCommand(value) == <<"rotation_euler", value>>

Init ==
    /\ cfg = DefaultConfig
    /\ pc = "idle"
    /\ ballNum = 0
    /\ gen = 0
    /\ hostHandles \in HostPolicies
    /\ objects = [n \in {} |-> NoObject]
    /\ materials = <<>>
    /\ calls = <<>>
    /\ log = <<>>
    /\ emitted = <<>>
    /\ fault = "none"

\* the operator is invoked: lines 94-96 set up the collection
Execute ==
    /\ pc \in {"idle", "finished", "raised"}
    /\ gen < MaxGenerations
    /\ gen > 0 => cfg \in SceneConfigs
    /\ \E c \in (IF gen = 0 THEN WideConfigs \cup SceneConfigs ELSE SceneConfigs) :
          /\ (c \in WideConfigs \ SceneConfigs) => hostHandles = "toPrev"
          /\ cfg' = c
    /\ pc' = "frame"
    /\ gen' = gen + 1
    /\ ballNum' = 0
    /\ calls' = <<>>
    /\ log' = <<Entry("collection", -1, objects, objects)>>
    /\ emitted' = <<>>
    /\ fault' = "none"
    /\ UNCHANGED <<hostHandles, objects, materials>>

\* line 99
CreateFrame ==
    /\ pc = "frame"
    /\ LET r == create_frame(objects, materials, cfg, gen, hostHandles)
       IN  /\ objects' = r.objects
           /\ materials' = r.materials
           /\ log' = Append(log, Entry("frame", -1, objects, r.objects))
           /\ emitted' = emitted \o <<HandleCommand(r.objects)>>
                                 \o NewMaterialCommands(materials, r.materials)
    /\ pc' = AfterFrame
    /\ UNCHANGED <<cfg, ballNum, gen, hostHandles, calls, fault>>

\* one pass of the loop of lines 102-103
CreateBall ==
    /\ pc = "balls"
    /\ ballNum < cfg.ballCount
    /\ LET loc == BallLocation(cfg, ballNum)
           r   == create_ball(objects, materials, cfg, gen, ballNum, loc)
       IN  /\ calls' = Append(calls, <<ballNum, loc>>)
           /\ objects' = r.objects
           /\ materials' = r.materials
           /\ fault' = r.fault
           /\ log' = Append(log, Entry("ball", ballNum, objects, r.objects))
           /\ emitted' = emitted \o NewMaterialCommands(materials, r.materials)
           /\ IF r.fault # "none"
              THEN pc' = "raised" /\ ballNum' = ballNum
              ELSE /\ ballNum' = ballNum + 1
                   /\ pc' = IF ballNum + 1 < cfg.ballCount THEN "balls" ELSE AfterBalls
    /\ UNCHANGED <<cfg, gen, hostHandles>>

\* line 106
MaterialsDefine ==
    /\ pc = "materials"
    /\ materials' = materials_define(materials, cfg)
    /\ log' = Append(log, Entry("materials", -1, objects, objects))
    /\ pc' = AfterMaterials
    /\ UNCHANGED <<cfg, ballNum, gen, hostHandles, objects, calls, emitted, fault>>

\* lines 109-113: bpy.data.objects[name] raises KeyError when there is no such object
SetInitialCondition ==
    /\ pc = "initial"
    /\ LET arrows == Lookup(objects, ballHingeArrowsName(InitialBall))
       IN  IF arrows = NoObject
           THEN /\ fault' = "KeyError"
                /\ pc' = "raised"
                /\ UNCHANGED <<objects, log, emitted>>
           ELSE /\ objects' = [objects EXCEPT ![arrows].rotation_euler =
                                   rotate_object(@, cfg.ballStartAngle, "Z")]
                /\ emitted' = Append(emitted, RotationCommand(
                       rotate_object(objects[arrows].rotation_euler, cfg.ballStartAngle, "Z")))
                /\ log' = Append(log, Entry("initial", InitialBall, objects, objects))
                /\ pc' = "finished"
                /\ fault' = "none"
    /\ UNCHANGED <<cfg, ballNum, gen, hostHandles, materials, calls>>

Next == Execute \/ CreateFrame \/ CreateBall \/ MaterialsDefine \/ SetInitialCondition

Spec == Init /\ [][Next]_vars


----------------------------------------------------------------------------
(* What the properties speak about *)

\* the objects the run in progress created in a given role for a given ball
Made(role, num) ==
    {n \in DOMAIN objects :
        objects[n].gen = gen /\ objects[n].role = role /\ objects[n].num = num}

\* the frame the run in progress created
MadeFrame == Made("frame", -1)

\* the run in progress has left create_frame
FrameDone == gen > 0 /\ pc # "frame"

\* the run in progress does not share the scene with an earlier one
FirstRun == gen = 1

\* the balls whose create_ball call has returned in the run in progress
BallsDone == 0..(ballNum - 1)

\* the objects of a role among the given ones
OfRole(names, role) == {n \in names : objects[n].role = role}

\* the objects the run in progress created for a ball
BallObjects(num) ==
    {n \in DOMAIN objects : objects[n].gen = gen /\ objects[n].num = num}

\* the objects of the run in progress
Current == {n \in DOMAIN objects : objects[n].gen = gen}

RECURSIVE SumX(_, _)
SumX(cs, k) == IF k = 0 THEN 0 ELSE cs[k][2][1] + SumX(cs, k - 1)

SquaredDistance(a, b) ==
    LET d == VSub(a, b) IN d[1] * d[1] + d[2] * d[2] + d[3] * d[3]

----------------------------------------------------------------------------
(* C1 *)

\* the create_ball calls made so far are those of the indices 0, 1, ... in order,
\* each with the centre ((i - (N-1)/2) * D, 0, frameHeigtBelowBalls)
CallsAreCentred ==
    \A k \in 1..Len(calls) :
        /\ calls[k][1] = k - 1
        /\ 2 * calls[k][2][1] = (2 * (k - 1) - (cfg.ballCount - 1)) * cfg.ballBodyDiameter
        /\ calls[k][2][2] = 0
        /\ calls[k][2][3] = cfg.frameHeigtBelowBalls
        /\ k > 1 => calls[k][2][1] - calls[k - 1][2][1] = cfg.ballBodyDiameter

\* C1: every run of execute calls create_ball exactly ballCount times, once per
\* index i = 0..N-1 in order, with centre ((i - (N-1)/2) * D, 0, frameHeigtBelowBalls);
\* consecutive centres are D apart and the x-coordinates sum to 0.  Stated of a run
\* that has ended, by FINISHED or by an exception.
C1_ExactlyBallCountCalls ==
    /\ CallsAreCentred
    /\ pc \in {"finished", "raised"} =>
          /\ Len(calls) = cfg.ballCount
          /\ SumX(calls, Len(calls)) = 0

\* what does hold of every run, ended or not: the calls made are centred as C1
\* says, and a run that returns FINISHED has made all ballCount of them
C1_CallsOfFinishedRun ==
    /\ CallsAreCentred
    /\ Len(calls) <= cfg.ballCount
    /\ pc \in {"materials", "initial", "finished"} =>
          /\ Len(calls) = cfg.ballCount
          /\ SumX(calls, Len(calls)) = 0

----------------------------------------------------------------------------
(* C2, C3 *)

\* both handles of a bezier point lie len away from the point
HandlesAtDistance(bp, len) ==
    /\ SquaredDistance(bp.handle_left, bp.co) = len * len
    /\ SquaredDistance(bp.handle_right, bp.co) = len * len

\* the curve is closed, has 16 points, every point's handles are handleVectorLength
\* away from it and no point went through the fallback branch
FrameIsRounded(curve) ==
    /\ curve.type = "CURVE"
    /\ curve.cyclic
    /\ Len(curve.points) = 16
    /\ \A i \in 1..Len(curve.points) :
          /\ HandlesAtDistance(curve.points[i], handleVectorLength(cfg))
          /\ curve.points[i].branch # "other"

\* C2: create_frame produces one closed curve of 16 control points whose handles
\* all lie (4/3)*tan(pi/8)*frameCornerRadius from their point, and the handle loop
\* never takes the zero-length fallback on any point
C2_FrameRounded ==
    FrameDone =>
        /\ Cardinality(MadeFrame) = 1
        /\ \A n \in MadeFrame : FrameIsRounded(objects[n])
        /\ \A n \in DOMAIN objects :
              \A i \in 1..Len(objects[n].points) : objects[n].points[i].branch # "other"

\* what does hold: C2 of a run that does not share the scene with an earlier one
C2_FrameRoundedFirstRun == FirstRun => C2_FrameRounded

\* the axis (1: x, 2: y, 3: z) both handles of a point are parallel to, 0 if none
HandleAxis(bp) ==
    LET l == VSub(bp.handle_left, bp.co)
        r == VSub(bp.handle_right, bp.co)
        Along(a) == /\ l[a] # 0 /\ r[a] # 0
                    /\ \A b \in 1..3 : b # a => l[b] = 0 /\ r[b] = 0
    IN  IF Along(1) THEN 1 ELSE IF Along(2) THEN 2 ELSE IF Along(3) THEN 3 ELSE 0

RoleAxis(role) == CASE role = "lower" -> 2 [] role = "mid" -> 3 [] role = "upper" -> 1 [] OTHER -> 0

\* C3: every frame point's handles run along the axis of its construction role:
\* y for the 4 lower points, z for the 8 mid points, x for the 4 upper points,
\* also when two tier heights are equal
C3_HandlesFollowRole ==
    FrameDone /\ FirstRun =>
        \A n \in MadeFrame : \A i \in 1..Len(objects[n].points) :
            HandleAxis(objects[n].points[i]) = RoleAxis(objects[n].points[i].role)

\* what does hold: C3 when the total height differs from the corner radius
C3_HandlesFollowRoleDistinctTiers ==
    cfg.frameHeigtBelowBalls + cfg.frameHeigtAboveBalls # cfg.frameCornerRadius
        => C3_HandlesFollowRole


----------------------------------------------------------------------------
(* C4, C5 *)

\* the frame corner above a ball and the outer end of the ball's suspension
FrameCorner(ballLocation) ==
    Vec(ballLocation[1], cfg.frameWidth \div 2,
        cfg.frameHeigtBelowBalls + cfg.frameHeigtAboveBalls)
SuspensionEnd(ballLocation) ==
    Vec(ballLocation[1], cfg.ballSuspensionLength \div 2,
        SuspensionLocation(cfg, ballLocation)[3])

\* pivot lies SupportDeltaLength from the corner (to the tick), on the line from
\* the corner towards the suspension's end (to the tick), on the suspension's side
PivotOnSupportLine(pivot, corner, end, deltaLength) ==
    LET off == VSub(corner, pivot)
        dir == VSub(corner, end)
        sq  == off[2] * off[2] + off[3] * off[3]
    IN  /\ off[1] = 0
        /\ (deltaLength - 1) * (deltaLength - 1) <= sq
        /\ sq <= (deltaLength + 1) * (deltaLength + 1)
        /\ Abs(off[2] * dir[3] - off[3] * dir[2]) <= Abs(dir[2]) + Abs(dir[3])
        /\ off[2] * dir[2] + off[3] * dir[3] > 0

\* C4: for every ball the hinge pivot computed by create_ball lies
\* frameThickness/2 + ballWireThickness/2 from the frame corner
\* (ball x, frameWidth/2, frameHeigtBelowBalls + frameHeigtAboveBalls), on the line
\* from the corner towards the suspension's outer end, and the computed offset
\* added back to the pivot gives the corner.  Lengths are compared to the tick.
C4_PivotAtDeltaFromCorner ==
    \A n \in Current : objects[n].role = "hingeCube" =>
        LET loc    == calls[objects[n].num + 1][2]
            pivot  == objects[n].location
            corner == FrameCorner(loc)
            end    == SuspensionEnd(loc)
            dl     == cfg.frameThickness \div 2 + cfg.ballWireThickness \div 2
            y      == corner[2] - end[2]
            z      == corner[3] - end[3]
        IN  /\ PivotOnSupportLine(pivot, corner, end, dl)
            /\ VAdd(pivot, Vec(0, SupportDelta(dl, y, z, y), SupportDelta(dl, y, z, z))) = corner

\* a run has ended with ten balls whose pivots lie off both axes from the corner
C4_Witness ==
    /\ pc = "finished"
    /\ cfg.ballCount = ballCountMax
    /\ cfg # DefaultConfig
    /\ \A i \in 0..(cfg.ballCount - 1) : \E n \in Made("hingeCube", i) :
          /\ objects[n].location[2] # cfg.frameWidth \div 2
          /\ objects[n].location[3] # cfg.frameHeigtBelowBalls + cfg.frameHeigtAboveBalls

\* C5: for every configuration within the declared ranges execute raises no error
\* of its own and the length the suspension-end-to-corner vector is divided by is
\* never zero
C5_NoErrorInRange ==
    (gen > 0 /\ InRange(cfg)) =>
        /\ fault = "none"
        /\ pc # "raised"
        /\ \A k \in 1..Len(calls) :
              LET susp == SuspensionLocation(cfg, calls[k][2])
              IN  ~SupportLengthIsZero(SupportY(cfg, susp), SupportZ(cfg, susp))

\* every configuration the model runs is within the declared ranges
ConfigInRange == InRange(cfg)

----------------------------------------------------------------------------
(* C6 *)

\* the rotation empty_add gives a hinge marker, line 300
CreationRotation == Vec(0, 90, 90)

SameOrientation(e1, e2) == EulerToMatrix(e1) = EulerToMatrix(e2)
IsIdentity(e) == SameOrientation(e, Vec(0, 0, 0))

\* C6 as stated: after a generation with the default configuration the hinge marker
\* of ball 0 is the only one with a non-identity rotation and the markers of the
\* balls 1..N-1 have identity rotation
C6_OthersIdentity ==
    (pc = "finished" /\ cfg = DefaultConfig) =>
        \A n \in Current : objects[n].role = "hingeArrows" =>
            IF objects[n].num = 0 THEN ~IsIdentity(objects[n].rotation_euler)
            ELSE IsIdentity(objects[n].rotation_euler)

\* C6 amended: no hinge marker has identity rotation, each is created with the
\* rotation (0, 90, 90) degrees; the markers of the balls 1..N-1 keep that rotation,
\* the only marker with another rotation is the one the name of ball 0's marker
\* resolves to, and after a generation with ballStartAngle = 45 that created this
\* marker its orientation differs from the one it was created with
C6_OthersKeepCreationRotation ==
    /\ \A n \in DOMAIN objects : objects[n].role = "hingeArrows" =>
          /\ ~IsIdentity(objects[n].rotation_euler)
          /\ objects[n].num >= 1 => objects[n].rotation_euler = CreationRotation
          /\ objects[n].rotation_euler # CreationRotation => n = ballHingeArrowsName(0)
    /\ (pc = "finished" /\ cfg.ballStartAngle = 45
            /\ objects[ballHingeArrowsName(0)].gen = gen) =>
          ~SameOrientation(objects[ballHingeArrowsName(0)].rotation_euler, CreationRotation)

\* the default generation has ended: marker 0 is turned, marker 1 is as created
C6_Witness ==
    /\ pc = "finished"
    /\ cfg = DefaultConfig
    /\ objects[ballHingeArrowsName(0)].rotation_euler = Vec(-90, 135, 0)
    /\ objects[ballHingeArrowsName(1)].rotation_euler = CreationRotation
    /\ objects[ballHingeArrowsName(4)].rotation_euler = CreationRotation


----------------------------------------------------------------------------
(* C7 *)

\* the place of a phase in the order frame, ball 0, ..., ball N-1, materials, rotation
PhaseRank(e) ==
    CASE e.phase = "collection" -> 0
      [] e.phase = "frame"      -> 1
      [] e.phase = "ball"       -> 2 + e.num
      [] e.phase = "materials"  -> 2 + cfg.ballCount
      [] e.phase = "initial"    -> 3 + cfg.ballCount

\* the phase that creates the objects of a role
PhaseOf(obj) == IF obj.role = "frame" THEN "frame" ELSE "ball"

\* C7: in every run of execute the phases occur in the order create_frame,
\* create_ball of ball 0, 1, ..., N-1, materials_define, the rotation, which is the
\* last before FINISHED; every object is created within its phase, after all objects
\* of the earlier phases; and no object is looked up by name before it is created
C7_StrictPhaseOrder ==
    /\ \A k \in 1..Len(log) : PhaseRank(log[k]) = k - 1
    /\ \A k \in 2..Len(log) : log[k].first = log[k - 1].last + 1
    /\ \A n \in Current : \E k \in 1..Len(log) :
          /\ log[k].first <= objects[n].serial
          /\ objects[n].serial <= log[k].last
          /\ log[k].phase = PhaseOf(objects[n])
          /\ log[k].num = objects[n].num
    /\ fault # "KeyError"
    /\ pc = "initial" => ballHingeArrowsName(InitialBall) \in DOMAIN objects
    /\ pc = "finished" =>
          /\ Len(log) = cfg.ballCount + 4
          /\ log[Len(log)].phase = "initial"

\* a run of ten balls has gone through all its phases
C7_Witness ==
    /\ pc = "finished"
    /\ cfg.ballCount = ballCountMax
    /\ Len(log) = ballCountMax + 4
    /\ log[2].phase = "frame"
    /\ log[ballCountMax + 3].phase = "materials"
    /\ Cardinality(Current) = 1 + 7 * ballCountMax

----------------------------------------------------------------------------
(* C8 *)

\* the parent of the object is an object of the run in progress, of the given role
\* and of the same ball
ParentIs(n, role) ==
    /\ objects[n].parent \in Current
    /\ objects[objects[n].parent].role = role
    /\ objects[objects[n].parent].num = objects[n].num

\* the number of parent links above an object, counted up to 3
Depth(n) ==
    LET p1 == objects[n].parent
        p2 == objects[p1].parent
        p3 == objects[p2].parent
    IN  IF p1 = NoObject THEN 0 ELSE IF p2 = NoObject THEN 1
        ELSE IF p3 = NoObject THEN 2 ELSE 3

\* C8: after a generation, for every ball i the parent of suspension i is body i,
\* the parent of body i is hinge marker i and the parent of wire i is body i; the
\* frame, the hinge cubes, the hinge markers and the tori have no parent; the parent
\* relation has depth at most 2
C8_ParentsByIndex ==
    pc = "finished" =>
        \A n \in Current :
            /\ CASE objects[n].role = "suspension" -> ParentIs(n, "body")
                 [] objects[n].role = "body"       -> ParentIs(n, "hingeArrows")
                 [] objects[n].role = "wire"       -> ParentIs(n, "body")
                 [] OTHER                          -> objects[n].parent = NoObject
            /\ Depth(n) <= 2

\* what does hold: C8 of a run that does not share the scene with an earlier one
C8_ParentsByIndexFirstRun == FirstRun => C8_ParentsByIndex

----------------------------------------------------------------------------
(* C9, C10 *)

Mirror(v) == Vec(v[1], -v[2], v[3])

\* C9: for every ball, vertex 4 of the wire is vertex 2 and vertex 5 is vertex 1,
\* the hinge pivot, with y negated and x and z unchanged; vertex 3, the suspension's
\* location, lies on y = 0; and wire fixation torus 2 is the reflection of torus 1
C9_WireMirrored ==
    \A i \in BallsDone :
        LET mine == BallObjects(i)
        IN  /\ \A w \in OfRole(mine, "wire") :
                  LET v == objects[w].points
                  IN  /\ Len(v) >= 5
                      /\ v[4].co = Mirror(v[2].co)
                      /\ v[5].co = Mirror(v[1].co)
                      /\ v[3].co[2] = 0
                      /\ \A h \in OfRole(mine, "hingeCube") : v[1].co = objects[h].location
                      /\ \A u \in OfRole(mine, "suspension") : v[3].co = objects[u].location
            /\ \A a \in OfRole(mine, "fixation1") : \A b \in OfRole(mine, "fixation2") :
                  objects[b].location = Mirror(objects[a].location)

\* a run has ended whose wires and tori all reach off the plane y = 0
C9_Witness ==
    /\ pc = "finished"
    /\ cfg.ballCount = 7
    /\ \A i \in 0..6 :
          /\ \E w \in Made("wire", i) :
                /\ objects[w].points[1].co[2] > 0
                /\ objects[w].points[2].co[2] > 0
                /\ objects[w].points[5].co[2] < 0
          /\ \E a \in Made("fixation1", i) : objects[a].location[2] > 0
          /\ \E b \in Made("fixation2", i) : objects[b].location[2] < 0

\* how many objects of each role the run in progress created for a ball
Assembly(i) ==
    LET mine == BallObjects(i)
    IN  [role \in {"body", "suspension", "hingeCube", "hingeArrows", "wire",
                   "fixation1", "fixation2"} |-> Cardinality(OfRole(mine, role))]

\* C10 as stated: for every ball there are two wire curve objects of 5 control
\* points each and two wire-fixation tori, next to the body, the suspension, the
\* hinge cube and the hinge marker
C10_TwoWires ==
    \A i \in BallsDone :
        /\ Assembly(i) = [body |-> 1, suspension |-> 1, hingeCube |-> 1, hingeArrows |-> 1,
                          wire |-> 2, fixation1 |-> 1, fixation2 |-> 1]
        /\ \A w \in Made("wire", i) : Len(objects[w].points) = 5

\* C10 amended: for every ball create_ball has built, there is one wire curve
\* object, of 5 control points, and two wire-fixation tori, so that the assembly is
\* body, suspension, hinge cube, hinge marker, one wire curve and two tori
C10_OneWire ==
    \A i \in BallsDone :
        LET mine == BallObjects(i)
        IN  /\ Cardinality(mine) = 7
            /\ Assembly(i) = [body |-> 1, suspension |-> 1, hingeCube |-> 1,
                              hingeArrows |-> 1, wire |-> 1, fixation1 |-> 1, fixation2 |-> 1]
            /\ \A w \in OfRole(mine, "wire") :
                  /\ objects[w].type = "CURVE"
                  /\ Len(objects[w].points) = 5
            /\ \A t \in OfRole(mine, "fixation1") \cup OfRole(mine, "fixation2") :
                  objects[t].type = "TORUS"
            /\ log[i + 3].last - log[i + 3].first + 1 = 7

\* a run has ended with the assemblies of four balls, one wire each
C10_Witness ==
    /\ pc = "finished"
    /\ cfg.ballCount = 4
    /\ BallsDone = 0..3
    /\ \A i \in 0..3 : Cardinality(Made("wire", i)) = 1
    /\ Cardinality({n \in Current : objects[n].type = "TORUS"}) = 8


----------------------------------------------------------------------------
(* C11 *)

\* the material name of a category for a ball under the configuration in force
CategoryMaterial(prefix, individual, num) ==
    [base |-> "Material_" \o prefix,
     digits |-> IF individual THEN <<(num + 1) \div 10, (num + 1) % 10>> ELSE <<>>]

\* the colour (R, G, B, A in hundredths), roughness and specular of a category
CategoryShading(base) ==
    CASE base = "Material_BallBody"       -> <<<<0, 0, 100, 100>>, 50, 50>>
      [] base = "Material_BallSuspension" -> <<<<0, 100, 0, 100>>, 50, 50>>
      [] base = "Material_BallWire"       -> <<<<100, 65, 0, 100>>, 50, 0>>
      [] base = "Material_Frame"          -> <<<<40, 40, 40, 100>>, 50, 50>>

\* the registry's materials of a name
Registered(name) == {i \in 1..Len(materials) : materials[i].name = name}

\* the material the object of a role references under the configuration in force
ExpectedMaterial(obj) ==
    CASE obj.role = "body" ->
            CategoryMaterial("BallBody", cfg.ballBodyIndividualMaterial, obj.num)
      [] obj.role = "suspension" ->
            CategoryMaterial("BallSuspension", cfg.ballSuspensionIndividualMaterial, obj.num)
      [] obj.role \in {"wire", "fixation1", "fixation2"} ->
            CategoryMaterial("BallWire", cfg.ballWireIndividualMaterial, obj.num)
      [] obj.role = "frame" -> CategoryMaterial("Frame", FALSE, 0)

\* C11: after any number of generations the registry holds exactly one material
\* per material name used; the body, the suspension and the wire of every ball
\* reference the one shared material of their category when its flag is off and
\* the ball's own material when it is on; and every material a generated object
\* references has the colour, roughness and specular of its category after
\* materials_define
C11_MaterialRegistry ==
    /\ \A i, j \in 1..Len(materials) : materials[i].name = materials[j].name => i = j
    /\ pc \in {"initial", "finished"} =>
          \A n \in DOMAIN objects :
              /\ \A k \in 1..Len(objects[n].materials) :
                    \E i \in Registered(objects[n].materials[k]) :
                        <<materials[i].diffuse_color, materials[i].roughness,
                          materials[i].specular_intensity>>
                            = CategoryShading(objects[n].materials[k].base)
              /\ (objects[n].gen = gen /\ objects[n].role \notin {"hingeCube", "hingeArrows"}) =>
                    objects[n].materials = <<ExpectedMaterial(objects[n])>>

\* what does hold: C11 of a run that does not share the scene with an earlier one
C11_MaterialRegistryFirstRun == FirstRun => C11_MaterialRegistry


----------------------------------------------------------------------------
(* C12 *)

\* the scene with no object, and the way the host places handles in the run
\* that other runs are compared with
EmptyScene == [n \in {} |-> NoObject]
ReferenceHandles == "toPrev"

\* the run of execute with a configuration from the empty scene, step by step:
\* the scene, the registry, the commands emitted and the exception raised, if any
ReferenceFrame(c) ==
    LET r == create_frame(EmptyScene, <<>>, c, 1, ReferenceHandles)
    IN  [objects |-> r.objects, materials |-> r.materials, fault |-> "none",
         emitted |-> <<HandleCommand(r.objects)>> \o NewMaterialCommands(<<>>, r.materials)]

RECURSIVE ReferenceBalls(_, _, _)
ReferenceBalls(c, s, num) ==
    IF num >= c.ballCount THEN s
    ELSE LET r == create_ball(s.objects, s.materials, c, 1, num, BallLocation(c, num))
             t == [objects |-> r.objects, materials |-> r.materials, fault |-> r.fault,
                   emitted |-> s.emitted \o NewMaterialCommands(s.materials, r.materials)]
         IN  IF r.fault # "none" THEN t ELSE ReferenceBalls(c, t, num + 1)

\* the reference run up to the initial condition, and to its end
ReferenceCreated(c) == ReferenceBalls(c, ReferenceFrame(c), 0)
ReferenceRun(c) ==
    LET s == ReferenceCreated(c)
        arrows == Lookup(s.objects, ballHingeArrowsName(InitialBall))
    IN  IF s.fault # "none" THEN s
        ELSE [s EXCEPT !.emitted = Append(@, RotationCommand(
                 rotate_object(s.objects[arrows].rotation_euler, c.ballStartAngle, "Z")))]

\* the arguments of the commands that created an object: the add operator's
\* location and rotation, the vertices added and the name asked for
CreationCommand(obj) ==
    [serial |-> obj.serial, role |-> obj.role, num |-> obj.num, type |-> obj.type,
     location |-> obj.location, rotation |-> obj.rotation_euler,
     vertices |-> [i \in 1..Len(obj.points) |-> obj.points[i].co],
     name |-> [obj.name EXCEPT !.dup = 0]]

\* the creation commands of a run, whose first object has the serial first
CreationCommands(objs, g, first) ==
    {[CreationCommand(objs[n]) EXCEPT !.serial = @ - first] :
        n \in {m \in DOMAIN objs : objs[m].gen = g}}

\* the run in progress has created its objects and not yet set the initial condition
AllCreated == pc = "initial"

----------------------------------------------------------------------------
(* C13: rotate_object applied twice to the hinge marker of ball #1 *)

\* the start angles tried: the whole degrees of the declared range
StartAngles == PropertyRange.ballStartAngle[1]..PropertyRange.ballStartAngle[2]

\* the operator is constructed with the default properties and some start angle,
\* in an empty scene
InitRotation ==
    /\ \E theta \in StartAngles : cfg = [DefaultConfig EXCEPT !.ballStartAngle = theta]
    /\ pc = "idle"
    /\ ballNum = 0
    /\ gen = 0
    /\ hostHandles \in HostPolicies
    /\ objects = EmptyScene
    /\ materials = <<>>
    /\ calls = <<>>
    /\ log = <<>>
    /\ emitted = <<>>
    /\ fault = "none"

\* the operator is invoked once, with the properties it was constructed with
ExecuteConfigured ==
    /\ pc = "idle"
    /\ gen = 0
    /\ pc' = "frame"
    /\ gen' = gen + 1
    /\ ballNum' = 0
    /\ calls' = <<>>
    /\ log' = <<Entry("collection", -1, objects, objects)>>
    /\ emitted' = <<>>
    /\ fault' = "none"
    /\ UNCHANGED <<cfg, hostHandles, objects, materials>>

\* rotate_object called once more on the same marker, with the opposite angle
RotateBack ==
    /\ pc = "finished"
    /\ LET arrows == Lookup(objects, ballHingeArrowsName(InitialBall))
       IN  /\ objects' = [objects EXCEPT ![arrows].rotation_euler =
                             rotate_object(@, -cfg.ballStartAngle, "Z")]
           /\ emitted' = Append(emitted, RotationCommand(
                 rotate_object(objects[arrows].rotation_euler, -cfg.ballStartAngle, "Z")))
    /\ pc' = "restored"
    /\ UNCHANGED <<cfg, ballNum, gen, hostHandles, materials, calls, log, fault>>

NextRotation ==
    \/ ExecuteConfigured
    \/ CreateFrame
    \/ CreateBall
    \/ MaterialsDefine
    \/ SetInitialCondition
    \/ RotateBack

SpecRotation == InitRotation /\ [][NextRotation]_vars

\* C13: rotate_object applied to the hinge marker of ball #1 with the angle theta
\* and then with -theta, about the same axis, returns the marker to the orientation
\* it was created with, (0, 90, 90) degrees, for every theta in 0..180
C13_RotationRestored ==
    /\ pc = "initial" =>
          objects[ballHingeArrowsName(InitialBall)].rotation_euler = CreationRotation
    /\ pc = "restored" =>
          SameOrientation(objects[ballHingeArrowsName(InitialBall)].rotation_euler,
                          CreationRotation)

\* the marker was turned by 135 degrees, away from the orientation it was created
\* with, and turned back
C13_Witness ==
    /\ pc = "restored"
    /\ cfg.ballStartAngle = 135
    /\ Len(emitted) >= 2
    /\ emitted[Len(emitted) - 1][1] = "rotation_euler"
    /\ ~SameOrientation(emitted[Len(emitted) - 1][2], CreationRotation)
    /\ emitted[Len(emitted)][2] = objects[ballHingeArrowsName(InitialBall)].rotation_euler

\* the reference run gives the scene, the registry and the commands that a first
\* run of Spec has at line 108
ReferenceMatchesRun ==
    (pc = "initial" /\ gen = 1 /\ hostHandles = ReferenceHandles) =>
        LET s == ReferenceCreated(cfg)
        IN  /\ objects = s.objects
            /\ materials = materials_define(s.materials, cfg)
            /\ emitted = s.emitted

----------------------------------------------------------------------------
(* C14: lookups by name in a scene that holds an earlier cradle *)

\* the name the code asked for when it named an object: its name without the
\* suffix the host may have added
AskedName(n) == [n EXCEPT !.dup = 0]

\* the objects made by an earlier run
Earlier == {n \in DOMAIN objects : objects[n].gen < gen}

\* C14: in any sequence of generations in one scene, the lookups by name that
\* create_frame, create_ball and execute do right after naming an object resolve to
\* the object the current generation created under that name
C14_LookupsResolveToOwn ==
    \A n \in Current : Lookup(objects, AskedName(n)) = n

\* what follows from C14 according to the claim: the handle fix-up, the bevel depth,
\* the rigid-body settings, the parenting and the rotation of a generation never
\* change an object of an earlier generation
C14_EarlierGenerationsUntouched ==
    [][\A n \in DOMAIN objects : objects[n].gen < gen' => objects'[n] = objects[n]]_vars

\* what does hold: C14 of a run that does not share the scene with an earlier one
C14_LookupsResolveToOwnFirstRun == FirstRun => C14_LookupsResolveToOwn

\* what does hold in a scene with an earlier cradle: a lookup resolves to the
\* object of the current generation only where the name was free; where it was
\* taken, the lookup resolves to the object of the earlier generation, and the new
\* object keeps what its add operator gave it: no parent, no rigid body, no bevel
\* depth, no material
C14_LookupsResolveByName ==
    \A n \in Current :
        IF n.dup = 0 THEN Lookup(objects, AskedName(n)) = n
        ELSE /\ Lookup(objects, AskedName(n)) \in Earlier
             /\ objects[n].parent = NoObject
             /\ objects[n].rigid_body = NoRigidBody
             /\ objects[n].bevel_depth = 0
             /\ objects[n].materials = <<>>

----------------------------------------------------------------------------
(* C15: rigid bodies and hinge constraints *)

\* the rigid body of a ball body: ACTIVE, with the configured friction, restitution
\* and mass
ConfiguredRigidBody(c) ==
    [type |-> "ACTIVE", friction |-> c.ballBodyFriction,
     restitution |-> c.ballBodyBounciness, mass |-> c.ballBodyMass]

\* C15: after a generation, for every ball index i, body i is an ACTIVE rigid body
\* with the configured friction, restitution and mass, hinge cube i is a PASSIVE
\* rigid body hidden in viewport and render, and hinge marker i carries one HINGE
\* constraint from body i to hinge cube i; the frame, the suspensions, the wires and
\* the tori have neither a rigid body nor a constraint
C15_RigidBodiesAndHinges ==
    pc = "finished" =>
        /\ \A i \in 0..(cfg.ballCount - 1) :
              LET mine    == BallObjects(i)
                  bodies  == OfRole(mine, "body")
                  cubes   == OfRole(mine, "hingeCube")
                  markers == OfRole(mine, "hingeArrows")
              IN  /\ Cardinality(bodies) = 1
                  /\ Cardinality(cubes) = 1
                  /\ Cardinality(markers) = 1
                  /\ \A b \in bodies : objects[b].rigid_body = ConfiguredRigidBody(cfg)
                  /\ \A q \in cubes : /\ objects[q].rigid_body.type = "PASSIVE"
                                      /\ objects[q].hide_viewport
                                      /\ objects[q].hide_render
                  /\ \A a \in markers :
                        /\ objects[a].rigid_body_constraint.type = "HINGE"
                        /\ objects[a].rigid_body_constraint.object1 \in bodies
                        /\ objects[a].rigid_body_constraint.object2 \in cubes
        /\ \A n \in Current :
              /\ objects[n].role \notin {"body", "hingeCube"} =>
                    objects[n].rigid_body = NoRigidBody
              /\ objects[n].role # "hingeArrows" =>
                    objects[n].rigid_body_constraint = NoConstraint

\* what does hold: C15 of a run that does not share the scene with an earlier one
C15_RigidBodiesAndHingesFirstRun == FirstRun => C15_RigidBodiesAndHinges

====
